---- MODULE Spec2Model ----
(***************************************************************************)
(* MedCare risk scoring: predictor.py modelled as a state machine.         *)
(*                                                                         *)
(* Data representation                                                     *)
(*   key    a record [pre, stem, cs]: the text pre \o stem written in      *)
(*          letter case cs.  str.lower()/str.upper() change cs only, and   *)
(*          key.upper().startswith('SP_') is pre = "sp_".                  *)
(*   value  a record [t, n, d, s]:                                         *)
(*            t = "int"      the int n (d = 1)                             *)
(*            t = "float"    the float n/d                                 *)
(*            t = "digits"   a str of decimal digits spelling n            *)
(*            t = "decimal"  a str float() parses to n/d that is not all   *)
(*                           digits ("74.5", "-3")                         *)
(*            t = "text"     any other str, s (float() raises ValueError)  *)
(*            t = "none"     None                                          *)
(*   dict   a sequence of <<key, value>> pairs with distinct keys, in      *)
(*          insertion order (Python dict semantics).                       *)
(***************************************************************************)
EXTENDS Integers, Sequences, FiniteSets, TLC

\* requests admitted so far
VARIABLE served

\* ------------------------------------------------------------------ keys

lc(stem) == [pre |-> "", stem |-> stem, cs |-> "lower"]
uc(stem) == [pre |-> "", stem |-> stem, cs |-> "upper"]
mc(stem) == [pre |-> "", stem |-> stem, cs |-> "mixed"]
SPl(stem) == [pre |-> "sp_", stem |-> stem, cs |-> "lower"]
SPu(stem) == [pre |-> "sp_", stem |-> stem, cs |-> "upper"]
SPm(stem) == [pre |-> "sp_", stem |-> stem, cs |-> "mixed"]

\* str.lower() and str.upper() on a key
Lower(k) == [k EXCEPT !.cs = "lower"]
Upper(k) == [k EXCEPT !.cs = "upper"]

\* key.upper().startswith('SP_')
StartsWithSP(k) == Upper(k).pre = "sp_"

\* ---------------------------------------------------------------- values

IntV(n)          == [t |-> "int", n |-> n, d |-> 1, s |-> ""]
Float(n, d)      == [t |-> "float", n |-> n, d |-> d, s |-> ""]
DigitStr(n)      == [t |-> "digits", n |-> n, d |-> 1, s |-> ""]
DecimalStr(n, d) == [t |-> "decimal", n |-> n, d |-> d, s |-> ""]
Text(s)          == [t |-> "text", n |-> 0, d |-> 1, s |-> s]
None             == [t |-> "none", n |-> 0, d |-> 1, s |-> ""]

IsNum(v) == v.t \in {"int", "float"}
IsStr(v) == v.t \in {"digits", "decimal", "text"}

\* comparisons and products of numbers n/d (d > 0)
Lt(a, b)  == a.n * b.d < b.n * a.d
Le(a, b)  == a.n * b.d <= b.n * a.d
Gt(a, b)  == Lt(b, a)
Ge(a, b)  == Le(b, a)
Eq(a, b)  == a.n * b.d = b.n * a.d
RECURSIVE GCD(_, _)
GCD(a, b) == IF b = 0 THEN a ELSE GCD(b, a % b)
\* a float is kept in lowest terms
Reduced(n, d) == LET g == GCD(IF n < 0 THEN -n ELSE n, d) IN Float(n \div g, d \div g)
Mul(a, b) == Reduced(a.n * b.n, a.d * b.d)
Add(a, b) == Reduced(a.n * b.d + b.n * a.d, a.d * b.d)

\* Python truth value of a value (bool(v))
Truthy(v) ==
    CASE IsNum(v)     -> v.n # 0
      [] v.t = "text" -> v.s # ""
      [] v.t = "none" -> FALSE
      [] OTHER        -> TRUE

\* ----------------------------------------------------------------- dicts

Keys(d) == {d[i][1] : i \in DOMAIN d}
Has(d, k) == k \in Keys(d)
Get(d, k, default) ==
    IF Has(d, k) THEN d[CHOOSE i \in DOMAIN d : d[i][1] = k][2] ELSE default
Put(d, k, v) ==
    IF Has(d, k)
    THEN [i \in DOMAIN d |-> IF d[i][1] = k THEN <<k, v>> ELSE d[i]]
    ELSE Append(d, <<k, v>>)

\* dict(pairs): a key keeps the place of its first pair and the value of its last
DictOf(pairs) ==
    LET idx    == [i \in DOMAIN pairs |-> i]
        firsts == SelectSeq(idx, LAMBDA i : \A j \in 1..(i - 1) : pairs[j][1] # pairs[i][1])
        last(f) == LET same == {j \in f..Len(pairs) : pairs[j][1] = pairs[f][1]}
                   IN  CHOOSE m \in same : \A j \in same : j <= m
    IN  [r \in DOMAIN firsts |-> <<pairs[firsts[r]][1], pairs[last(firsts[r])][2]>>]

\* {**acc, **d}
MergeInto(acc, d) == DictOf(acc \o d)

\* {k.lower(): v for k, v in d.items()}
LowerKeys(d) == DictOf([i \in DOMAIN d |-> <<Lower(d[i][1]), d[i][2]>>])

\* ------------------------------------------------- derived-feature builder

condition_fields_upper ==
    << SPu("chf"), SPu("diabetes"), SPu("chrnkidn"), SPu("cncr"), SPu("copd"),
       SPu("depressn"), SPu("ischmcht"), SPu("strketia"), SPu("alzhdmta"),
       SPu("osteoprs"), SPu("ra_oa") >>

high_impact_list == << SPu("chf"), SPu("chrnkidn"), SPu("cncr"), SPu("copd") >>

\* lines 156-159: digit strings become int, what float() parses becomes a
\* float, anything else is kept as it is
Coerce(v) ==
    CASE v.t = "digits"  -> IntV(v.n)
      [] v.t = "decimal" -> Float(v.n, v.d)
      [] IsNum(v)        -> Float(v.n, v.d)
      [] OTHER           -> v

\* lines 153-159: the keys that do not start with SP_, their values coerced
PassThrough(form) ==
    LET kept == SelectSeq(form, LAMBDA kv : ~StartsWithSP(kv[1]))
    IN  DictOf([i \in DOMAIN kept |-> <<kept[i][1], Coerce(kept[i][2])>>])

\* 1 if cond else 0
Flag(cond) == IF cond THEN IntV(1) ELSE IntV(0)

\* lines 161-163
ConditionFlags(pd, form) ==
    MergeInto(pd, [i \in DOMAIN condition_fields_upper |->
                     <<condition_fields_upper[i], Flag(Has(form, condition_fields_upper[i]))>>])

\* AgeBands with the upper bounds of the bands inclusive (<= for <)
AgeBandsInclusive(pd) ==
    LET age == Get(pd, lc("age"), IntV(0))
    IN  IF ~IsNum(age) THEN [err |-> "TypeError", data |-> pd]
        ELSE [err |-> "none",
              data |-> Put(Put(Put(pd,
                  lc("age_65_74"), Flag(Le(IntV(65), age) /\ Le(age, IntV(75)))),
                  lc("age_75_84"), Flag(Le(IntV(75), age) /\ Le(age, IntV(85)))),
                  lc("age_85_plus"), Flag(Ge(age, IntV(85))))]

\* lines 165-168; the comparisons raise TypeError on a str or None
AgeBands(pd) ==
    LET age == Get(pd, lc("age"), IntV(0))
    IN  IF ~IsNum(age) THEN [err |-> "TypeError", data |-> pd]
        ELSE [err |-> "none",
              data |-> Put(Put(Put(pd,
                  lc("age_65_74"), Flag(Le(IntV(65), age) /\ Lt(age, IntV(75)))),
                  lc("age_75_84"), Flag(Le(IntV(75), age) /\ Lt(age, IntV(85)))),
                  lc("age_85_plus"), Flag(Ge(age, IntV(85))))]

RECURSIVE SumFlags(_, _)
\* sum(processed_data.get(cond, 0) for cond in high_impact_list)
SumFlags(pd, conds) ==
    IF conds = <<>> THEN 0
    ELSE Get(pd, Head(conds), IntV(0)).n + SumFlags(pd, Tail(conds))

\* UtilizationFlags with the visit threshold inclusive (>= 10 for > 10)
UtilizationFlagsInclusive(pd) ==
    LET adm    == Get(pd, lc("inpatient_admissions"), IntV(0))
        visits == Get(pd, lc("outpatient_visits"), IntV(0))
        costs  == Get(pd, lc("total_medicare_costs"), IntV(0))
        pd1    == Put(pd, lc("high_impact_conditions"), IntV(SumFlags(pd, high_impact_list)))
    IN  IF ~IsNum(adm) \/ ~IsNum(visits) \/ ~IsNum(costs)
        THEN [err |-> "TypeError", data |-> pd1]
        ELSE [err |-> "none",
              data |-> Put(Put(Put(pd1,
                  lc("prior_hospitalization"), Flag(Gt(adm, IntV(0)))),
                  lc("frequent_ed_user"), Flag(Ge(visits, IntV(10)))),
                  lc("high_cost_patient"), Flag(Gt(costs, IntV(20000))))]

\* lines 170-174; each comparison raises TypeError on a str or None
UtilizationFlags(pd) ==
    LET adm    == Get(pd, lc("inpatient_admissions"), IntV(0))
        visits == Get(pd, lc("outpatient_visits"), IntV(0))
        costs  == Get(pd, lc("total_medicare_costs"), IntV(0))
        pd1    == Put(pd, lc("high_impact_conditions"), IntV(SumFlags(pd, high_impact_list)))
    IN  IF ~IsNum(adm) \/ ~IsNum(visits) \/ ~IsNum(costs)
        THEN [err |-> "TypeError", data |-> pd1]
        ELSE [err |-> "none",
              data |-> Put(Put(Put(pd1,
                  lc("prior_hospitalization"), Flag(Gt(adm, IntV(0)))),
                  lc("frequent_ed_user"), Flag(Gt(visits, IntV(10)))),
                  lc("high_cost_patient"), Flag(Gt(costs, IntV(20000))))]

\* lines 153-174: the enriched record, or the TypeError a comparison raises
DeriveFeatures(form) ==
    LET bands == AgeBands(ConditionFlags(PassThrough(form), form))
    IN  IF bands.err # "none" THEN bands ELSE UtilizationFlags(bands.data)

\* ------------------------------------------------------------- model bundle
\* A pipeline object is [n_in, shift]: a fitted transform that expects n_in
\* columns and centres each by shift.  A classifier is a decision stump on
\* the sum of the scaled features, [cut, lo, hi, ...]: its positive-class
\* probability is hi/100 when the sum reaches cut and lo/100 below it.  The
\* optional attributes feature_importances_, coef_ and base_estimator are
\* records [has, w] / [has, fi, coef].

NoWeights == [has |-> FALSE, w |-> <<>>]
Weights(w) == [has |-> TRUE, w |-> w]
NoBase == [has |-> FALSE, fi |-> NoWeights, coef |-> NoWeights]

Stump(cut, lo, hi) ==
    [cut |-> cut, lo |-> lo, hi |-> hi,
     fi |-> NoWeights, coef |-> NoWeights, base |-> NoBase]

\* float(v) as the transform's input validation applies it
CanFloat(v) == v.t \in {"int", "float", "digits", "decimal"}

RECURSIVE SumVec(_)
SumVec(X) == IF X = <<>> THEN Float(0, 1) ELSE Add(Head(X), SumVec(Tail(X)))

\* Transform fitting again on every call (fit_transform for transform): the
\* centre moves with the number of records seen
TransformRefitted(pl, X) ==
    IF Len(X) # pl.n_in \/ \E i \in DOMAIN X : ~CanFloat(X[i])
    THEN [err |-> "ValueError", X |-> <<>>]
    ELSE [err |-> "none",
          X |-> [i \in DOMAIN X |->
                   Float(X[i].n - (pl.shift + served - 1) * X[i].d, X[i].d)]]

\* pipeline.transform(X_input): line 40
Transform(pl, X) ==
    IF Len(X) # pl.n_in \/ \E i \in DOMAIN X : ~CanFloat(X[i])
    THEN [err |-> "ValueError", X |-> <<>>]
    ELSE [err |-> "none",
          X |-> [i \in DOMAIN X |-> Float(X[i].n - pl.shift * X[i].d, X[i].d)]]

\* model.predict_proba(X_scaled)[0, 1]: line 44
PredictProba(clf, X) ==
    IF Ge(SumVec(X), IntV(clf.cut)) THEN Float(clf.hi, 100) ELSE Float(clf.lo, 100)

\* f'{model_name}_score': line 45
ScoreKey(name) == [name EXCEPT !.stem = @ \o "_score"]

\* "not self.pipeline or not self.models": lines 27 and 50
NotLoaded(pl, models) == ~pl.set \/ ~models.set \/ models.d = <<>>

\* lines 34-36
DefaultMissing(temp_input, features) ==
    LET missing == SelectSeq(features, LAMBDA f : ~Has(temp_input, f))
    IN  DictOf(temp_input \o [i \in DOMAIN missing |-> <<missing[i], IntV(0)>>])

\* lines 31-39: the vector handed to the transform
FeatureVector(input_data, feature_columns) ==
    LET temp_input == DefaultMissing(LowerKeys(input_data), feature_columns)
    IN  [i \in DOMAIN feature_columns |-> Get(temp_input, feature_columns[i], None)]

\* lines 42-45
ScoreAll(models, X_scaled) ==
    DictOf([i \in DOMAIN models |->
              <<ScoreKey(models[i][1]), PredictProba(models[i][2], X_scaled)>>])

\* Predictor.predict: lines 26-47
Predict(pl, models, feature_columns, input_data) ==
    IF NotLoaded(pl, models)
    THEN [err |-> "Models not loaded", X_input |-> <<>>, predictions |-> <<>>]
    ELSE LET X_input == FeatureVector(input_data, feature_columns)
             scaled  == Transform(pl.obj, X_input)
         IN  IF scaled.err # "none"
             THEN [err |-> scaled.err, X_input |-> X_input, predictions |-> <<>>]
             ELSE [err |-> "none", X_input |-> X_input,
                   predictions |-> ScoreAll(models.d, scaled.X)]

\* ------------------------------------------------------------ tier and ROI

\* db_predictions with the 60-day and 90-day scores exchanged
DbPredictionsExchanged(predictions) ==
    << <<lc("hospitalization_30d_score"), Get(predictions, lc("30d_hospitalization_score"), None)>>,
       <<lc("hospitalization_60d_score"), Get(predictions, lc("90d_hospitalization_score"), None)>>,
       <<lc("hospitalization_90d_score"), Get(predictions, lc("60d_hospitalization_score"), None)>>,
       <<lc("mortality_score"), Get(predictions, lc("mortality_score"), None)>> >>

\* lines 179-184
DbPredictions(predictions) ==
    << <<lc("hospitalization_30d_score"), Get(predictions, lc("30d_hospitalization_score"), None)>>,
       <<lc("hospitalization_60d_score"), Get(predictions, lc("60d_hospitalization_score"), None)>>,
       <<lc("hospitalization_90d_score"), Get(predictions, lc("90d_hospitalization_score"), None)>>,
       <<lc("mortality_score"), Get(predictions, lc("mortality_score"), None)>> >>

\* the score used as it comes, without "or 0"
OrZeroDropped(v) == v

\* "x or 0": line 186
OrZero(v) == IF Truthy(v) THEN v ELSE IntV(0)

\* RiskTier with exclusive lower bounds (> for >=)
RiskTierExclusive(p) ==
    IF Gt(p, Float(85, 100)) THEN 5
    ELSE IF Gt(p, Float(65, 100)) THEN 4
    ELSE IF Gt(p, Float(40, 100)) THEN 3
    ELSE IF Gt(p, Float(15, 100)) THEN 2
    ELSE 1

\* lines 187-191; a comparison with None raises TypeError
RiskTier(p) ==
    IF Ge(p, Float(85, 100)) THEN 5
    ELSE IF Ge(p, Float(65, 100)) THEN 4
    ELSE IF Ge(p, Float(40, 100)) THEN 3
    ELSE IF Ge(p, Float(15, 100)) THEN 2
    ELSE 1

\* tier_info with the rate of tier 4 repeated in the row of tier 5
tier_info_repeated_rate ==
    [t \in 1..5 |->
       CASE t = 1 -> [label |-> "Low Risk", intervention |-> "Preventive Care",
                      cost |-> 200, rate |-> Float(2, 100)]
         [] t = 2 -> [label |-> "Low-Moderate Risk", intervention |-> "Enhanced Wellness",
                      cost |-> 300, rate |-> Float(5, 100)]
         [] t = 3 -> [label |-> "Moderate Risk", intervention |-> "Care Coordination",
                      cost |-> 600, rate |-> Float(15, 100)]
         [] t = 4 -> [label |-> "High Risk", intervention |-> "Case Management",
                      cost |-> 800, rate |-> Float(25, 100)]
         [] t = 5 -> [label |-> "Critical Risk", intervention |-> "Intensive Management",
                      cost |-> 1000, rate |-> Float(25, 100)]]

\* lines 193-199
tier_info ==
    [t \in 1..5 |->
       CASE t = 1 -> [label |-> "Low Risk", intervention |-> "Preventive Care",
                      cost |-> 200, rate |-> Float(2, 100)]
         [] t = 2 -> [label |-> "Low-Moderate Risk", intervention |-> "Enhanced Wellness",
                      cost |-> 300, rate |-> Float(5, 100)]
         [] t = 3 -> [label |-> "Moderate Risk", intervention |-> "Care Coordination",
                      cost |-> 600, rate |-> Float(15, 100)]
         [] t = 4 -> [label |-> "High Risk", intervention |-> "Case Management",
                      cost |-> 800, rate |-> Float(25, 100)]
         [] t = 5 -> [label |-> "Critical Risk", intervention |-> "Intensive Management",
                      cost |-> 1000, rate |-> Float(35, 100)]]

\* line 201
avg_preventable_cost == 10000

\* lines 179-219: final_results, or the TypeError of comparing a score that
\* is no number
FinalResults(processed_data, predictions) ==
    LET db_predictions == DbPredictions(predictions)
        primary_risk_score ==
            OrZero(Get(db_predictions, lc("hospitalization_30d_score"), None))
        risk_tier == RiskTier(primary_risk_score)
        prevention_rate == tier_info[risk_tier].rate
        prevented_hospitalizations == Mul(primary_risk_score, prevention_rate)
        cost_savings == Mul(prevented_hospitalizations, IntV(avg_preventable_cost))
    IN  IF ~IsNum(primary_risk_score) THEN [err |-> "TypeError", data |-> <<>>]
        ELSE [err |-> "none", data |->
        MergeInto(MergeInto(processed_data, db_predictions),
          << <<lc("risk_tier"), IntV(risk_tier)>>,
             <<lc("risk_tier_label"), Text(tier_info[risk_tier].label)>>,
             <<lc("care_intervention"), Text(tier_info[risk_tier].intervention)>>,
             <<lc("annual_intervention_cost"), IntV(tier_info[risk_tier].cost)>>,
             <<lc("prevented_hospitalizations"), prevented_hospitalizations>>,
             <<lc("cost_savings"), cost_savings>>,
             <<lc("risk_30d_hospitalization"), primary_risk_score>>,
             <<lc("risk_60d_hospitalization"),
               Get(db_predictions, lc("hospitalization_60d_score"), None)>>,
             <<lc("risk_90d_hospitalization"),
               Get(db_predictions, lc("hospitalization_90d_score"), None)>>,
             <<lc("mortality_risk"), Get(db_predictions, lc("mortality_score"), None)>> >>)]

\* ------------------------------------------------------ condition impact

\* lines 61-63
condition_fields ==
    << SPl("chf"), SPl("diabetes"), SPl("chrnkidn"), SPl("cncr"), SPl("copd"),
       SPl("depressn"), SPl("ischmcht"), SPl("strketia"), SPl("alzhdmta"),
       SPl("osteoprs"), SPl("ra_oa") >>

\* lines 74-86; condition_name_map.get(condition, condition)
CleanName(cond) ==
    CASE cond = SPl("chf")      -> lc("Heart Failure")
      [] cond = SPl("diabetes") -> lc("Diabetes")
      [] cond = SPl("chrnkidn") -> lc("Kidney Disease")
      [] cond = SPl("cncr")     -> lc("Cancer")
      [] cond = SPl("copd")     -> lc("COPD")
      [] cond = SPl("depressn") -> lc("Depression")
      [] cond = SPl("ischmcht") -> lc("Ischemic Heart")
      [] cond = SPl("strketia") -> lc("Stroke/TIA")
      [] cond = SPl("alzhdmta") -> lc("Dementia")
      [] cond = SPl("osteoprs") -> lc("Osteoporosis")
      [] cond = SPl("ra_oa")    -> lc("Arthritis")
      [] OTHER                  -> cond

\* patient_data.get(cond) == 1
IsOne(v) == IsNum(v) /\ Eq(v, IntV(1))

\* PatientConditions taking every flag the record holds, whatever its value
PatientConditionsAnyValue(patient_data) ==
    SelectSeq(condition_fields, LAMBDA cond : Has(patient_data, cond))

\* line 66
PatientConditions(patient_data) ==
    SelectSeq(condition_fields, LAMBDA cond : IsOne(Get(patient_data, cond, None)))

Abs(n) == IF n < 0 THEN -n ELSE n

\* Importances asking for the linear coefficients before the importance scores
ImportancesCoefFirst(model) ==
    IF model.coef.has THEN Weights([i \in DOMAIN model.coef.w |-> Abs(model.coef.w[i])])
    ELSE IF model.fi.has THEN Weights(model.fi.w)
    ELSE IF model.base.has
         THEN IF model.base.coef.has
              THEN Weights([i \in DOMAIN model.base.coef.w |-> Abs(model.base.coef.w[i])])
              ELSE IF model.base.fi.has THEN Weights(model.base.fi.w)
                   ELSE NoWeights
         ELSE NoWeights

\* lines 94-106: the weights the classifier exposes, first source first
Importances(model) ==
    IF model.fi.has THEN Weights(model.fi.w)
    ELSE IF model.coef.has THEN Weights([i \in DOMAIN model.coef.w |-> Abs(model.coef.w[i])])
    ELSE IF model.base.has
         THEN IF model.base.fi.has THEN Weights(model.base.fi.w)
              ELSE IF model.base.coef.has
                   THEN Weights([i \in DOMAIN model.base.coef.w |-> Abs(model.base.coef.w[i])])
                   ELSE NoWeights
         ELSE NoWeights

Min(a, b) == IF a < b THEN a ELSE b

\* dict(zip(self.feature_columns, importances)): line 109
ImportanceDict(feature_columns, w) ==
    DictOf([i \in 1..Min(Len(feature_columns), Len(w)) |-> <<feature_columns[i], IntV(w[i])>>])

RECURSIVE TotalImportance(_, _)
\* line 111
TotalImportance(importance_dict, conds) ==
    IF conds = <<>> THEN 0
    ELSE Get(importance_dict, Head(conds), IntV(0)).n
         + TotalImportance(importance_dict, Tail(conds))

\* round(n/d, 2) for n/d >= 0, in hundredths; a tie goes to the even neighbour
Round2(n, d) ==
    LET q == (n * 100) \div d
        r == (n * 100) % d
    IN  IF 2 * r < d THEN q
        ELSE IF 2 * r > d THEN q + 1
        ELSE IF q % 2 = 0 THEN q ELSE q + 1

\* lines 113-120
WeightedImpacts(importance_dict, total, conds) ==
    LET importance(cond) == Get(importance_dict, cond, IntV(0)).n
        positive == SelectSeq(conds, LAMBDA cond : importance(cond) * 100 > 0)
    IN  DictOf([i \in DOMAIN positive |->
                  <<CleanName(positive[i]),
                    Float(Round2(importance(positive[i]) * 100, total), 100)>>])

\* UniformImpacts dividing by the number of condition fields, not of the
\* patient's conditions
UniformImpactsOverAllFields(conds) ==
    DictOf([i \in DOMAIN conds |->
              <<CleanName(conds[i]), Float(Round2(100, Len(condition_fields)), 100)>>])

\* lines 125-128
UniformImpacts(conds) ==
    DictOf([i \in DOMAIN conds |->
              <<CleanName(conds[i]), Float(Round2(100, Len(conds)), 100)>>])

\* Predictor.get_condition_impact: lines 49-131
GetConditionImpact(pl, models, feature_columns, patient_data) ==
    IF NotLoaded(pl, models) THEN [err |-> "none", impacts |-> <<>>]
    ELSE
    LET base_predictions == Predict(pl, models, feature_columns, patient_data)
        patient_conditions == PatientConditions(patient_data)
        model == Get(models.d, lc("mortality"), Stump(0, 0, 0))
        importances == Importances(model)
        importance_dict == ImportanceDict(feature_columns, importances.w)
        total == TotalImportance(importance_dict, patient_conditions)
        weighted ==
            IF importances.has /\ feature_columns # <<>> /\ total > 0
            THEN WeightedImpacts(importance_dict, total, patient_conditions)
            ELSE <<>>
    IN  IF base_predictions.err # "none"
        THEN [err |-> base_predictions.err, impacts |-> <<>>]
        ELSE IF patient_conditions = <<>> THEN [err |-> "none", impacts |-> <<>>]
        ELSE IF ~Has(models.d, lc("mortality")) THEN [err |-> "none", impacts |-> <<>>]
        ELSE IF weighted = <<>>
             THEN [err |-> "none",
                   impacts |-> UniformImpacts(patient_conditions)]
             ELSE [err |-> "none", impacts |-> weighted]

\* ---------------------------------------------------------------- database
\* A table is a sequence of rows [desynpuf_id, cols], cols a dict over the
\* other columns (name for patients, update_cols for patient_analysis).  A transaction's statements are kept as a list of writes
\* that the connection sees at once and the tables receive on commit.

\* str(v): line 234
PyStr(v) ==
    CASE v.t = "int"   -> IF v.n >= 0 THEN DigitStr(v.n) ELSE DecimalStr(v.n, 1)
      [] v.t = "float" -> DecimalStr(v.n, v.d)
      [] v.t = "none"  -> Text("None")
      [] OTHER         -> v

\* a parameter as the text column desynpuf_id stores it
DbText(v) == IF v.t = "none" THEN None ELSE PyStr(v)

\* lines 244-254, without desynpuf_id
update_cols ==
    << lc("age"), lc("gender_male"), lc("race_white"), lc("race_black"),
       lc("chronic_condition_count"), lc("high_impact_conditions"),
       SPl("chf"), SPl("diabetes"), SPl("chrnkidn"), SPl("cncr"), SPl("copd"),
       SPl("depressn"), SPl("ischmcht"), SPl("strketia"), SPl("alzhdmta"),
       SPl("osteoprs"), SPl("ra_oa"),
       lc("inpatient_admissions"), lc("inpatient_days"), lc("outpatient_visits"),
       lc("total_medicare_costs"), lc("prior_hospitalization"),
       lc("risk_30d_hospitalization"), lc("risk_60d_hospitalization"),
       lc("risk_90d_hospitalization"), lc("mortality_risk"),
       lc("hospitalization_30d_score"), lc("hospitalization_60d_score"),
       lc("hospitalization_90d_score"), lc("mortality_score"), lc("risk_tier"),
       lc("risk_tier_label"), lc("care_intervention"),
       lc("annual_intervention_cost"), lc("cost_savings"),
       lc("prevented_hospitalizations") >>

\* [db_data.get(col) for col in update_cols]: lines 261 and 266
ColumnValues(db_data) ==
    [i \in DOMAIN update_cols |-> <<update_cols[i], Get(db_data, update_cols[i], None)>>]

\* a table after one write
ApplyWrite(table, w) ==
    IF w.op = "insert" THEN Append(table, w.row)
    ELSE [i \in DOMAIN table |->
            IF table[i].desynpuf_id = w.id
            THEN [table[i] EXCEPT !.cols = w.row.cols] ELSE table[i]]

RECURSIVE ApplyWrites(_, _, _)
ApplyWrites(table, tbl, writes) ==
    IF writes = <<>> THEN table
    ELSE ApplyWrites(
             IF Head(writes).tbl = tbl THEN ApplyWrite(table, Head(writes)) ELSE table,
             tbl, Tail(writes))

\* SELECT 1 FROM <table> WHERE desynpuf_id = %s ... fetchone()
Exists(table, id) == \E i \in DOMAIN table : table[i].desynpuf_id = id

\* -------------------------------------------------------------------- state

Calls == {"c1", "c2"}

VARIABLES
    disk,             \* the two pickled artifacts, [pipeline, risk_models]
    proc,             \* "starting", "serving" or "crashed" (import predictor)
    pipeline,         \* predictor.pipeline, [set, obj]
    models,           \* predictor.models, [set, d]
    feature_columns,  \* predictor.feature_columns
    pc,               \* where each process_uploaded_data call stands
    form_data,        \* the request each caller sends
    processed_data,   \* per call
    X_input,          \* per call: the vector predict handed to the transform
    predictions,      \* per call
    final_results,    \* per call
    err,              \* per call: the exception that left the call, or "none"
    txn,              \* per call: the writes of its open transaction
    found,            \* per call: what the last SELECT ... fetchone() gave
    patients,         \* table patients, committed
    patient_analysis, \* table patient_analysis, committed
    analysis,         \* the last get_conditional_risk_analysis call:
                      \* [status, err, ret, patient_data]
    record,           \* the record a caller hands to predictor.predict itself
    direct,           \* that call of predictor.predict: [status, err, X_input, predictions]
    results           \* per caller: what process_uploaded_data returned, call after call

vars == << disk, proc, pipeline, models, feature_columns, pc, form_data,
           processed_data, X_input, predictions, final_results, err, txn,
           found, patients, patient_analysis, analysis, served, record, direct,
           results >>

predictorVars == << pipeline, models, feature_columns >>
dbVars == << patients, patient_analysis >>
localVars == << processed_data, X_input, predictions, final_results >>

Unset == [set |-> FALSE, obj |-> [n_in |-> 0, shift |-> 0]]
UnsetModels == [set |-> FALSE, d |-> <<>>]

\* the number of requests a behaviour admits
MaxCalls == 2

\* ------------------------------------------------------------------- startup

\* LoadModels with the exception caught and not raised again: the import goes on
LoadModelsSwallowing ==
    /\ proc = "starting"
    /\ IF ~disk.pipeline.readable
       THEN /\ proc' = "serving"
            /\ UNCHANGED predictorVars
       ELSE IF ~disk.risk_models.readable
       THEN /\ proc' = "serving"
            /\ pipeline' = disk.pipeline.obj
            /\ UNCHANGED << models, feature_columns >>
       ELSE /\ proc' = "serving"
            /\ pipeline' = disk.pipeline.obj
            /\ models' = disk.risk_models.models
            /\ feature_columns' = disk.risk_models.feature_columns
    /\ UNCHANGED << disk, pc, form_data, localVars, err, txn, found, dbVars, analysis, served, record, direct,
                    results >>

\* predictor = Predictor(): lines 7-24 and 134.  An artifact that cannot be
\* opened or unpickled ends the import with the exception load_models re-raises,
\* and so does a models entry that is None: line 22 calls its keys().
LoadModels ==
    /\ proc = "starting"
    /\ IF ~disk.pipeline.readable
       THEN /\ proc' = "crashed"
            /\ UNCHANGED predictorVars
       ELSE IF ~disk.risk_models.readable
       THEN /\ proc' = "crashed"
            /\ pipeline' = disk.pipeline.obj
            /\ UNCHANGED << models, feature_columns >>
       ELSE /\ proc' = IF disk.risk_models.models.set THEN "serving" ELSE "crashed"
            /\ pipeline' = disk.pipeline.obj
            /\ models' = disk.risk_models.models
            /\ feature_columns' = disk.risk_models.feature_columns
    /\ UNCHANGED << disk, pc, form_data, localVars, err, txn, found, dbVars, analysis, served, record, direct,
                    results >>

\* ------------------------------------------------------ process_uploaded_data

\* POST /upload reaches process_uploaded_data(form_data): app.py 87-88
Submit(c) ==
    /\ proc = "serving"
    /\ served < MaxCalls
    /\ served' = served + 1
    /\ pc[c] \in {"idle", "returned", "raised"}
    /\ pc' = [pc EXCEPT ![c] = "derive"]
    /\ processed_data' = [processed_data EXCEPT ![c] = <<>>]
    /\ X_input' = [X_input EXCEPT ![c] = <<>>]
    /\ predictions' = [predictions EXCEPT ![c] = <<>>]
    /\ final_results' = [final_results EXCEPT ![c] = <<>>]
    /\ err' = [err EXCEPT ![c] = "none"]
    /\ UNCHANGED << disk, proc, predictorVars, form_data, txn, found, dbVars, analysis,
                    record, direct,
                    results >>

\* lines 153-176
Derive(c) ==
    /\ pc[c] = "derive"
    /\ LET r == DeriveFeatures(form_data[c])
       IN  IF r.err # "none"
           THEN /\ pc' = [pc EXCEPT ![c] = "raised"]
                /\ err' = [err EXCEPT ![c] = r.err]
                /\ UNCHANGED processed_data
           ELSE /\ pc' = [pc EXCEPT ![c] = "predict"]
                /\ processed_data' = [processed_data EXCEPT ![c] = r.data]
                /\ UNCHANGED err
    /\ UNCHANGED << disk, proc, predictorVars, form_data, X_input, predictions,
                    final_results, txn, found, dbVars, analysis, served, record, direct,
                    results >>

\* CallPredict reading the record from a field of the shared predictor that
\* another call in flight has set
CallPredictSharedInput(c) ==
    /\ pc[c] = "predict"
    /\ LET r == Predict(pipeline, models, feature_columns, LowerKeys(processed_data[
                         IF \E d \in Calls \ {c} : processed_data[d] # <<>>
                         THEN CHOOSE d \in Calls \ {c} : processed_data[d] # <<>>
                         ELSE c]))
       IN  /\ X_input' = [X_input EXCEPT ![c] = r.X_input]
           /\ IF r.err # "none"
              THEN /\ pc' = [pc EXCEPT ![c] = "raised"]
                   /\ err' = [err EXCEPT ![c] = r.err]
                   /\ UNCHANGED predictions
              ELSE /\ pc' = [pc EXCEPT ![c] = "tier"]
                   /\ predictions' = [predictions EXCEPT ![c] = r.predictions]
                   /\ UNCHANGED err
    /\ UNCHANGED << disk, proc, predictorVars, form_data, processed_data,
                    final_results, txn, found, dbVars, analysis, served, record, direct,
                    results >>

\* line 177: predictor.predict(processed_data_lower)
CallPredict(c) ==
    /\ pc[c] = "predict"
    /\ LET r == Predict(pipeline, models, feature_columns, LowerKeys(processed_data[c]))
       IN  /\ X_input' = [X_input EXCEPT ![c] = r.X_input]
           /\ IF r.err # "none"
              THEN /\ pc' = [pc EXCEPT ![c] = "raised"]
                   /\ err' = [err EXCEPT ![c] = r.err]
                   /\ UNCHANGED predictions
              ELSE /\ pc' = [pc EXCEPT ![c] = "tier"]
                   /\ predictions' = [predictions EXCEPT ![c] = r.predictions]
                   /\ UNCHANGED err
    /\ UNCHANGED << disk, proc, predictorVars, form_data, processed_data,
                    final_results, txn, found, dbVars, analysis, served, record, direct,
                    results >>

\* lines 179-219
Tier(c) ==
    /\ pc[c] = "tier"
    /\ LET r == FinalResults(processed_data[c], predictions[c])
       IN  IF r.err # "none"
           THEN /\ pc' = [pc EXCEPT ![c] = "raised"]
                /\ err' = [err EXCEPT ![c] = r.err]
                /\ UNCHANGED final_results
           ELSE /\ pc' = [pc EXCEPT ![c] = "connect"]
                /\ final_results' = [final_results EXCEPT ![c] = r.data]
                /\ UNCHANGED err
    /\ UNCHANGED << disk, proc, predictorVars, form_data, processed_data, X_input,
                    predictions, txn, found, dbVars, analysis, served, record, direct,
                    results >>

\* ---------------------------------------------------- store_prediction_results

\* line 229 (the .item() conversions of 230-232 change no value)
DbData(c) == LowerKeys(final_results[c])
\* lines 234-235
PatientId(c) == PyStr(Get(DbData(c), lc("desynpuf_id"), None))
PatientName(c) == Get(DbData(c), lc("name"), None)

\* the tables as the call's connection sees them
View(c, table, tbl) == ApplyWrites(table, tbl, txn[c])

StorePcs == {"connect", "patients_select", "patients_write",
             "analysis_select", "analysis_write", "commit"}

\* lines 227-228 and 237
Connect(c) ==
    /\ pc[c] = "connect"
    /\ txn' = [txn EXCEPT ![c] = <<>>]
    /\ pc' = [pc EXCEPT ![c] =
                 IF Truthy(PatientName(c)) /\ Truthy(PatientId(c))
                 THEN "patients_select" ELSE "analysis_select"]
    /\ UNCHANGED << disk, proc, predictorVars, form_data, localVars, err, found,
                    dbVars, analysis, served, record, direct,
                    results >>

\* lines 238-239
SelectPatients(c) ==
    /\ pc[c] = "patients_select"
    /\ found' = [found EXCEPT ![c] = Exists(View(c, patients, "patients"), PatientId(c))]
    /\ pc' = [pc EXCEPT ![c] = "patients_write"]
    /\ UNCHANGED << disk, proc, predictorVars, form_data, localVars, err, txn,
                    dbVars, analysis, served, record, direct,
                    results >>

\* lines 239-242
WritePatients(c) ==
    /\ pc[c] = "patients_write"
    /\ LET row == [desynpuf_id |-> PatientId(c),
                   cols |-> << <<lc("name"), PatientName(c)>> >>]
       IN  txn' = [txn EXCEPT ![c] = Append(@,
                      [op |-> IF found[c] THEN "update" ELSE "insert",
                       tbl |-> "patients", id |-> PatientId(c), row |-> row])]
    /\ pc' = [pc EXCEPT ![c] = "analysis_select"]
    /\ UNCHANGED << disk, proc, predictorVars, form_data, localVars, err, found,
                    dbVars, analysis, served, record, direct,
                    results >>

\* lines 256-257
SelectAnalysis(c) ==
    /\ pc[c] = "analysis_select"
    /\ found' = [found EXCEPT ![c] =
                    Exists(View(c, patient_analysis, "patient_analysis"), PatientId(c))]
    /\ pc' = [pc EXCEPT ![c] = "analysis_write"]
    /\ UNCHANGED << disk, proc, predictorVars, form_data, localVars, err, txn,
                    dbVars, analysis, served, record, direct,
                    results >>

\* lines 257-267
WriteAnalysis(c) ==
    /\ pc[c] = "analysis_write"
    /\ LET row == [desynpuf_id |-> DbText(Get(DbData(c), lc("desynpuf_id"), None)),
                   cols |-> ColumnValues(DbData(c))]
       IN  txn' = [txn EXCEPT ![c] = Append(@,
                      [op |-> IF found[c] THEN "update" ELSE "insert",
                       tbl |-> "patient_analysis", id |-> PatientId(c), row |-> row])]
    /\ pc' = [pc EXCEPT ![c] = "commit"]
    /\ UNCHANGED << disk, proc, predictorVars, form_data, localVars, err, found,
                    dbVars, analysis, served, record, direct,
                    results >>

\* lines 269 and 222: commit, then process_uploaded_data returns final_results
Commit(c) ==
    /\ pc[c] = "commit"
    /\ patients' = ApplyWrites(patients, "patients", txn[c])
    /\ patient_analysis' = ApplyWrites(patient_analysis, "patient_analysis", txn[c])
    /\ txn' = [txn EXCEPT ![c] = <<>>]
    /\ pc' = [pc EXCEPT ![c] = "returned"]
    /\ results' = [results EXCEPT ![c] = Append(@, final_results[c])]
    /\ UNCHANGED << disk, proc, predictorVars, form_data, localVars, err, found,
                    analysis, served, record, direct >>

\* lines 270-275: the connection or a statement raises; the transaction is
\* rolled back and the exception leaves process_uploaded_data
StoreFail(c) ==
    /\ pc[c] \in StorePcs
    /\ txn' = [txn EXCEPT ![c] = <<>>]
    /\ pc' = [pc EXCEPT ![c] = "raised"]
    /\ err' = [err EXCEPT ![c] = "DatabaseError"]
    /\ UNCHANGED << disk, proc, predictorVars, form_data, localVars, found,
                    dbVars, analysis, served, record, direct,
                    results >>

\* ------------------------------------------------ get_conditional_risk_analysis

\* CASE WHEN pa.gender_male = 1 ...: data.py 176-181
Gender(cols) ==
    IF IsOne(Get(cols, lc("gender_male"), None)) THEN Text("Male") ELSE Text("Female")
Race(cols) ==
    IF IsOne(Get(cols, lc("race_white"), None)) THEN Text("White")
    ELSE IF IsOne(Get(cols, lc("race_black"), None)) THEN Text("Black")
    ELSE Text("Other")

\* get_patient_details: data.py 170-193; result[0], or <<>> for None
PatientDetails(id) ==
    LET rows  == SelectSeq(patient_analysis, LAMBDA r : r.desynpuf_id = id)
        names == SelectSeq(patients, LAMBDA r : r.desynpuf_id = id)
    IN  IF rows = <<>> THEN <<>>
        ELSE MergeInto(<< <<lc("desynpuf_id"), rows[1].desynpuf_id>> >> \o rows[1].cols,
                 << <<lc("name"),
                      IF names = <<>> THEN None ELSE Get(names[1].cols, lc("name"), None)>>,
                    <<lc("gender"), Gender(rows[1].cols)>>,
                    <<lc("race"), Race(rows[1].cols)>> >>)

\* the ids a caller asks about
KnownIds == ({patient_analysis[i].desynpuf_id : i \in DOMAIN patient_analysis}
             \ {None}) \cup {Text("nobody")}

\* get_conditional_risk_analysis(patient_id): lines 136-150
Analyze(id, db_ok) ==
    /\ proc = "serving"
    /\ analysis.status # "off"
    /\ analysis' =
         IF ~db_ok
         THEN [status |-> "swallowed", err |-> "DatabaseError", ret |-> <<>>,
               patient_data |-> <<>>]
         ELSE IF PatientDetails(id) = <<>>
         THEN [status |-> "not_found", err |-> "none", ret |-> <<>>,
               patient_data |-> <<>>]
         ELSE LET patient_data_lower == LowerKeys(PatientDetails(id))
                  r == GetConditionImpact(pipeline, models, feature_columns,
                                          patient_data_lower)
              IN  IF r.err # "none"
                  THEN [status |-> "swallowed", err |-> r.err, ret |-> <<>>,
                        patient_data |-> patient_data_lower]
                  ELSE [status |-> "computed", err |-> "none", ret |-> r.impacts,
                        patient_data |-> patient_data_lower]
    /\ UNCHANGED << disk, proc, predictorVars, pc, form_data, localVars, err, txn,
                    found, dbVars, served, record, direct,
                    results >>

\* -------------------------------------------------------- predictor.predict

\* predictor.predict(record) called on its own: lines 26-47
PredictRecord ==
    /\ proc = "serving"
    /\ direct.status = "ready"
    /\ LET r == Predict(pipeline, models, feature_columns, record)
       IN  direct' = [status |-> "done", err |-> r.err, X_input |-> r.X_input,
                      predictions |-> r.predictions]
    /\ UNCHANGED << disk, proc, predictorVars, pc, form_data, localVars, err, txn,
                    found, dbVars, analysis, served, record, results >>

\* ------------------------------------------------------------------- inputs
\* The artifacts on disk, the rows the database already holds and the request
\* each caller sends are fixed at the start of a behaviour and drawn from the
\* families below.

MaxAge == 90
MaxVisits == 12
MaxFlagKeys == 2
MaxFeatures == 2
MaxScore == 100

PipelineFile(n_in, shift) ==
    [readable |-> TRUE,
     obj |-> [set |-> TRUE, obj |-> [n_in |-> n_in, shift |-> shift]]]
RiskFile(ms, fc) ==
    [readable |-> TRUE, models |-> [set |-> TRUE, d |-> ms], feature_columns |-> fc]
Unreadable ==
    [readable |-> FALSE, obj |-> Unset, models |-> UnsetModels, feature_columns |-> <<>>]

StdFeatures ==
    << lc("age"), SPl("chf"), SPl("copd"), lc("high_impact_conditions"),
       lc("prior_hospitalization"), lc("frequent_ed_user"), lc("high_cost_patient") >>

\* the four classifiers, the 30-day one scoring lo/100 below an age-driven
\* feature sum of 70 and hi/100 from there on
StdModels(lo, hi) ==
    << <<lc("30d_hospitalization"), Stump(70, lo, hi)>>,
       <<lc("60d_hospitalization"), Stump(70, 20, 60)>>,
       <<lc("90d_hospitalization"), Stump(70, 30, 70)>>,
       <<lc("mortality"), Stump(70, 10, 50)>> >>

StdDisk ==
    [pipeline |-> PipelineFile(Len(StdFeatures), 0),
     risk_models |-> RiskFile(StdModels(12, 66), StdFeatures)]

\* the fields of pool (a sequence of <<key, value>> pairs) at the places in S,
\* in pool order
Pick(pool, S) ==
    [r \in 1..Cardinality(S) |->
        pool[CHOOSE i \in S : Cardinality({j \in S : j <= i}) = r]]

\* every form of at most n fields of pool with distinct keys
Forms(pool, n) ==
    {Pick(pool, S) : S \in {T \in SUBSET DOMAIN pool :
        /\ Cardinality(T) <= n
        /\ \A i, j \in T : pool[i][1] = pool[j][1] => i = j}}

AgeValues ==
    {DigitStr(a) : a \in 60..MaxAge} \cup {DecimalStr(2 * a + 1, 2) : a \in {64, 74, 84}}
    \cup {IntV(74), Float(75, 1), Text("abc"), Text(""), None}

FormsAge ==
    {<< <<lc("age"), v>> >> : v \in AgeValues}
    \cup {<< <<uc("age"), DigitStr(70)>> >>, << <<mc("age"), DigitStr(80)>> >>,
          << <<uc("age"), DigitStr(80)>>, <<lc("age"), DigitStr(70)>> >>}

FlagPool ==
    << <<SPu("chf"), DigitStr(1)>>, <<SPu("chf"), DigitStr(0)>>, <<SPu("chf"), Text("")>>,
       <<SPl("chf"), DigitStr(1)>>,
       <<SPu("copd"), DigitStr(1)>>, <<SPu("copd"), DigitStr(0)>>,
       <<SPm("copd"), DigitStr(1)>>,
       <<SPu("diabetes"), Text("on")>>, <<SPl("diabetes"), Text("on")>>,
       <<SPu("state_code"), DigitStr(39)>>, <<lc("age"), DigitStr(70)>> >>

AllFlags(v) == [i \in DOMAIN condition_fields_upper |-> <<condition_fields_upper[i], v>>]

FormsFlags ==
    Forms(FlagPool, MaxFlagKeys)
    \cup {AllFlags(DigitStr(1)), AllFlags(DigitStr(0)),
          [i \in DOMAIN high_impact_list |-> <<high_impact_list[i], Text("on")>>]}

FormsUtil ==
    {<< <<lc("inpatient_admissions"), v>> >> :
        v \in {DigitStr(0), DigitStr(1), DecimalStr(1, 2), DecimalStr(-1, 1), Text("")}}
    \cup {<< <<lc("outpatient_visits"), v>> >> :
        v \in {DigitStr(n) : n \in 8..MaxVisits} \cup {DecimalStr(21, 2), None}}
    \cup {<< <<lc("total_medicare_costs"), v>> >> :
        v \in {DigitStr(20000), DigitStr(20001), DecimalStr(40001, 2), Text("n/a")}}
    \cup {<< <<uc("outpatient_visits"), DigitStr(11)>> >>,
          << <<lc("inpatient_admissions"), DigitStr(2)>>,
             <<lc("outpatient_visits"), DigitStr(11)>>,
             <<lc("total_medicare_costs"), DigitStr(25000)>> >>}

IdentPool ==
    << <<lc("desynpuf_id"), Text("P1")>>, <<lc("desynpuf_id"), DigitStr(7)>>,
       <<lc("desynpuf_id"), Text("")>>, <<uc("desynpuf_id"), Text("P0")>>,
       <<lc("name"), Text("Ann")>>, <<lc("name"), Text("")>> >>

FormsIdent ==
    {f \o << <<lc("age"), DigitStr(70)>>, <<SPu("chf"), DigitStr(1)>> >> :
        f \in Forms(IdentPool, 2)}

\* whether a client asks for condition analyses in this behaviour
NoAnalyst ==
    analysis = [status |-> "off", err |-> "none", ret |-> <<>>, patient_data |-> <<>>]
Analyst ==
    analysis = [status |-> "never", err |-> "none", ret |-> <<>>, patient_data |-> <<>>]

\* whether a caller invokes predictor.predict on a record of its own
NoDirect(status) == [status |-> status, err |-> "none", X_input |-> <<>>, predictions |-> <<>>]

\* rows an earlier run of the service left in the database
SeedRow ==
    [desynpuf_id |-> Text("P0"),
     cols |-> ColumnValues(<< <<lc("age"), IntV(70)>>, <<SPl("chf"), IntV(1)>>,
                              <<SPl("copd"), IntV(1)>>, <<lc("risk_tier"), IntV(2)>> >>)]
SeedName == [desynpuf_id |-> Text("P0"), cols |-> << <<lc("name"), Text("Zed")>> >>]

EmptyDb == patients = <<>> /\ patient_analysis = <<>>
SeededDb == patients = <<SeedName>> /\ patient_analysis = <<SeedRow>>

\* one client sending its requests one after the other, or two sending them
\* at the same time
OneCaller == pc = [c \in Calls |-> IF c = "c1" THEN "idle" ELSE "off"]
TwoCallers == pc = [c \in Calls |-> "idle"]

InitCommon ==
    /\ proc = "starting"
    /\ pipeline = Unset
    /\ models = UnsetModels
    /\ feature_columns = <<>>
    /\ processed_data = [c \in Calls |-> <<>>]
    /\ X_input = [c \in Calls |-> <<>>]
    /\ predictions = [c \in Calls |-> <<>>]
    /\ final_results = [c \in Calls |-> <<>>]
    /\ err = [c \in Calls |-> "none"]
    /\ txn = [c \in Calls |-> <<>>]
    /\ found = [c \in Calls |-> FALSE]
    /\ results = [c \in Calls |-> <<>>]

\* intake records of every shape against the standard bundle
InitForms ==
    /\ served = 0
    /\ OneCaller
    /\ disk = StdDisk
    /\ EmptyDb
    /\ NoAnalyst
    /\ record = <<>> /\ direct = NoDirect("off")
    /\ \E f \in FormsAge \cup FormsFlags \cup FormsUtil :
          form_data = [c \in Calls |-> f]

\* identified patients against a database that is empty or already holds a patient
InitIdent ==
    /\ served = 0
    /\ OneCaller
    /\ disk = StdDisk
    /\ EmptyDb \/ SeededDb
    /\ Analyst
    /\ record = <<>> /\ direct = NoDirect("off")
    /\ \E f \in FormsIdent : form_data = [c \in Calls |-> f]

\* bundles whose 30-day classifier gives every score k/100
ScoreDisks ==
    {[pipeline |-> PipelineFile(Len(StdFeatures), 0),
      risk_models |-> RiskFile(StdModels(p, MaxScore - p), StdFeatures)] :
        p \in 0..MaxScore}

FormsScore ==
    {<< <<lc("age"), DigitStr(60)>> >>,
     << <<lc("age"), DigitStr(80)>>, <<lc("desynpuf_id"), Text("P1")>> >>}

InitScores ==
    /\ served = MaxCalls - 1      \* one upload in each behaviour
    /\ OneCaller
    /\ EmptyDb
    /\ NoAnalyst
    /\ disk \in ScoreDisks
    /\ record = <<>> /\ direct = NoDirect("off")
    /\ \E f \in FormsScore : form_data = [c \in Calls |-> f]

\* bundles that lack classifiers, hold others, or did not load in full
OddModels ==
    { SubSeq(StdModels(12, 66), 2, 4),
      SubSeq(StdModels(12, 66), 4, 4),
      StdModels(0, 100) \o << <<lc("readmission"), Stump(70, 90, 95)>> >>,
      << <<mc("30d_hospitalization"), Stump(70, 90, 95)>>,
         <<mc("mortality"), Stump(70, 90, 95)>> >>,
      <<>> }

OddDisks ==
    {[pipeline |-> PipelineFile(Len(StdFeatures), 0),
      risk_models |-> RiskFile(ms, StdFeatures)] : ms \in OddModels}
    \cup
    {[pipeline |-> PipelineFile(Len(StdFeatures), 0),
      risk_models |-> [readable |-> TRUE, models |-> UnsetModels,
                       feature_columns |-> StdFeatures]],
     [pipeline |-> [readable |-> TRUE, obj |-> Unset],
      risk_models |-> RiskFile(StdModels(12, 66), StdFeatures)],
     [pipeline |-> Unreadable, risk_models |-> RiskFile(StdModels(12, 66), StdFeatures)],
     [pipeline |-> PipelineFile(Len(StdFeatures), 0), risk_models |-> Unreadable]}

InitOddBundles ==
    /\ served = 0
    /\ OneCaller
    /\ EmptyDb \/ SeededDb
    /\ Analyst
    /\ disk \in OddDisks
    /\ record = <<>> /\ direct = NoDirect("off")
    /\ \E f \in FormsScore : form_data = [c \in Calls |-> f]

\* bundles whose feature names are spelled in every way, with a transform
\* fitted on as many columns or on one more
FeaturePool ==
    << <<lc("age"), 0>>, <<uc("age"), 0>>, <<mc("age"), 0>>, <<SPl("chf"), 0>>,
       <<SPu("chf"), 0>>, <<lc("bmi"), 0>>, <<lc("name"), 0>> >>

FeatureLists ==
    {[i \in DOMAIN f |-> f[i][1]] : f \in Forms(FeaturePool, MaxFeatures) \ {<<>>}}

FeatureDisks ==
    {[pipeline |-> PipelineFile(Len(fc), 0),
      risk_models |-> RiskFile(StdModels(12, 66), fc)] : fc \in FeatureLists}
    \cup
    {[pipeline |-> PipelineFile(2, 0),
      risk_models |-> RiskFile(StdModels(12, 66), <<lc("age")>>)]}

FormsFeatures ==
    { << <<lc("age"), DigitStr(70)>> >>,
      << <<uc("age"), DigitStr(70)>> >>,
      << <<mc("age"), DigitStr(70)>>, <<SPu("chf"), DigitStr(1)>> >>,
      << <<lc("age"), DigitStr(70)>>, <<lc("name"), Text("Ann")>> >>,
      << <<uc("age"), DigitStr(80)>>, <<lc("age"), DigitStr(70)>> >>,
      << <<lc("bmi"), DecimalStr(45, 2)>>, <<lc("height"), DigitStr(170)>> >>,
      <<>> }

InitFeatures ==
    /\ served = MaxCalls - 1      \* one upload in each behaviour
    /\ OneCaller
    /\ EmptyDb
    /\ NoAnalyst
    /\ disk \in FeatureDisks
    /\ direct = NoDirect("ready")
    /\ \E f \in FormsFeatures : form_data = [c \in Calls |-> f] /\ record = f

\* bundles whose mortality classifier exposes weights in every way, against
\* stored patients with two, one, no and three conditions
ImpactFeatures == << lc("age"), SPl("chf"), SPl("copd"), SPl("diabetes") >>

Mortality(fi, coef, base) ==
    [Stump(70, 10, 50) EXCEPT !.fi = fi, !.coef = coef, !.base = base]

Base(fi, coef) == [has |-> TRUE, fi |-> fi, coef |-> coef]

MortalityModels ==
    { Mortality(Weights(<<5, 3, 1, 0>>), NoWeights, NoBase),
      Mortality(Weights(<<5, 1, 30000, 0>>), NoWeights, NoBase),
      Mortality(Weights(<<5, 0, 0, 4>>), NoWeights, NoBase),
      Mortality(Weights(<<1, 1, 1, 1>>), NoWeights, NoBase),
      Mortality(Weights(<<9, 1, 2, 0>>), NoWeights, NoBase),
      Mortality(Weights(<<5, 3>>), NoWeights, NoBase),
      Mortality(NoWeights, Weights(<<-2, -3, 1, 0>>), NoBase),
      Mortality(Weights(<<5, 3, 1, 0>>), Weights(<<0, 1, 3, 0>>), NoBase),
      Mortality(Weights(<<5, 0, 0, 4>>), Weights(<<0, 1, 3, 0>>), NoBase),
      Mortality(NoWeights, Weights(<<0, 1, 3, 0>>), Base(Weights(<<5, 3, 1, 0>>), NoWeights)),
      Mortality(NoWeights, NoWeights, Base(Weights(<<5, 3, 1, 0>>), Weights(<<0, 1, 3, 0>>))),
      Mortality(NoWeights, NoWeights, Base(NoWeights, Weights(<<0, -1, 3, 0>>))),
      Mortality(NoWeights, NoWeights, Base(NoWeights, NoWeights)),
      Mortality(NoWeights, NoWeights, NoBase) }

ImpactDisks ==
    {[pipeline |-> PipelineFile(Len(ImpactFeatures), 0),
      risk_models |-> RiskFile(SubSeq(StdModels(12, 66), 1, 3) \o << <<lc("mortality"), m>> >>,
                               ImpactFeatures)] : m \in MortalityModels}
    \cup
    {[pipeline |-> PipelineFile(Len(ImpactFeatures), 0),
      risk_models |-> RiskFile(SubSeq(StdModels(12, 66), 1, 3), ImpactFeatures)],
     [pipeline |-> PipelineFile(Len(ImpactFeatures) + 1, 0),
      risk_models |-> RiskFile(StdModels(12, 66), ImpactFeatures)],
     [pipeline |-> PipelineFile(Len(ImpactFeatures), 0),
      risk_models |-> RiskFile(<<>>, ImpactFeatures)]}

\* the row an earlier upload left for a patient with these condition flags
StoredPatient(id, chf, copd, diabetes) ==
    [desynpuf_id |-> Text(id),
     cols |-> ColumnValues(<< <<lc("age"), IntV(70)>>, <<SPl("chf"), IntV(chf)>>,
                              <<SPl("copd"), IntV(copd)>>,
                              <<SPl("diabetes"), IntV(diabetes)>>,
                              <<lc("risk_tier"), IntV(2)>> >>)]

ImpactDb ==
    /\ patients = <<SeedName>>
    /\ patient_analysis = << StoredPatient("P0", 1, 1, 0), StoredPatient("P1", 1, 0, 0),
                             StoredPatient("P2", 0, 0, 0), StoredPatient("P3", 1, 1, 1),
                             StoredPatient("P4", 2, 1, 0) >>

\* analyses only: the behaviour admits no upload
InitImpact ==
    /\ served = MaxCalls
    /\ OneCaller
    /\ ImpactDb
    /\ Analyst
    /\ disk \in ImpactDisks
    /\ record = <<>> /\ direct = NoDirect("off")
    /\ form_data = [c \in Calls |-> <<>>]

\* two clients uploading at the same time, for the same patient or for two,
\* while a third asks for an analysis
ConcurrentForms ==
    { [c \in Calls |->
          IF c = "c1"
          THEN << <<lc("age"), DigitStr(80)>>, <<lc("desynpuf_id"), Text("P0")>> >>
          ELSE << <<lc("age"), DigitStr(60)>>, <<SPu("chf"), DigitStr(1)>>,
                  <<lc("desynpuf_id"), Text("P0")>> >>],
      [c \in Calls |->
          IF c = "c1"
          THEN << <<lc("age"), DigitStr(80)>>, <<lc("desynpuf_id"), Text("P1")>> >>
          ELSE << <<lc("name"), Text("Ann")>>, <<lc("desynpuf_id"), Text("P2")>> >>],
      [c \in Calls |->
          IF c = "c1"
          THEN << <<lc("age"), DigitStr(80)>>, <<lc("name"), Text("Ann")>>,
                  <<lc("desynpuf_id"), Text("P1")>> >>
          ELSE << <<lc("age"), DigitStr(60)>>, <<lc("name"), Text("Bea")>>,
                  <<lc("desynpuf_id"), Text("P1")>> >>] }

InitConcurrent ==
    /\ served = 0
    /\ TwoCallers
    /\ disk = StdDisk
    /\ SeededDb
    /\ Analyst
    /\ record = <<>> /\ direct = NoDirect("off")
    /\ form_data \in ConcurrentForms

Init ==
    InitCommon /\ (InitForms \/ InitIdent \/ InitScores \/ InitOddBundles
                       \/ InitFeatures \/ InitImpact \/ InitConcurrent)

Next ==
    \/ LoadModels
    \/ \E c \in Calls : Submit(c)
    \/ \E c \in Calls : Derive(c)
    \/ \E c \in Calls : CallPredict(c)
    \/ \E c \in Calls : Tier(c)
    \/ \E c \in Calls : Connect(c)
    \/ \E c \in Calls : SelectPatients(c)
    \/ \E c \in Calls : WritePatients(c)
    \/ \E c \in Calls : SelectAnalysis(c)
    \/ \E c \in Calls : WriteAnalysis(c)
    \/ \E c \in Calls : Commit(c)
    \/ \E c \in Calls : StoreFail(c)
    \/ \E id \in KnownIds, db_ok \in BOOLEAN : Analyze(id, db_ok)
    \/ PredictRecord

Spec == Init /\ [][Next]_vars

\* ------------------------------------------------------------------- claims

Key30 == lc("30d_hospitalization_score")

\* the call has computed final_results (lines 206-219)
Scored(c) == final_results[c] # <<>>
Result(c, name) == Get(final_results[c], lc(name), None)

\* lo/100 <= p < hi/100
InBand(p, lo, hi) == lo * p.d <= 100 * p.n /\ 100 * p.n < hi * p.d

\* the row of the tier table the result carries
HasRow(c, tier, label, intervention, cost) ==
    /\ Result(c, "risk_tier") = IntV(tier)
    /\ Result(c, "risk_tier_label") = Text(label)
    /\ Result(c, "care_intervention") = Text(intervention)
    /\ Result(c, "annual_intervention_cost") = IntV(cost)

\* C1: whatever 30-day score p the classifier gives, the result carries tier 5
\* for p >= 0.85, 4 for 0.65 <= p < 0.85, 3 for 0.40 <= p < 0.65, 2 for
\* 0.15 <= p < 0.40 and 1 below 0.15, with the label, intervention and annual
\* cost of that tier's row; a boundary value gets the higher tier.
C1_TierByInclusiveLowerBounds ==
    \A c \in Calls :
        (Scored(c) /\ Has(predictions[c], Key30)) =>
            LET p == Get(predictions[c], Key30, None)
            IN  /\ 100 * p.n >= 85 * p.d =>
                       HasRow(c, 5, "Critical Risk", "Intensive Management", 1000)
                /\ InBand(p, 65, 85) => HasRow(c, 4, "High Risk", "Case Management", 800)
                /\ InBand(p, 40, 65) => HasRow(c, 3, "Moderate Risk", "Care Coordination", 600)
                /\ InBand(p, 15, 40) =>
                       HasRow(c, 2, "Low-Moderate Risk", "Enhanced Wellness", 300)
                /\ 100 * p.n < 15 * p.d => HasRow(c, 1, "Low Risk", "Preventive Care", 200)

\* a call returned tier 5 for the boundary score 0.85
C1_Witness ==
    \E c \in Calls :
        /\ pc[c] = "returned"
        /\ Get(predictions[c], Key30, None) = Float(85, 100)
        /\ Result(c, "risk_tier") = IntV(5)

\* the prevention rate, in hundredths, of the tier the table gives p
RatePercent(p) ==
    IF 100 * p.n >= 85 * p.d THEN 35
    ELSE IF 100 * p.n >= 65 * p.d THEN 25
    ELSE IF 100 * p.n >= 40 * p.d THEN 15
    ELSE IF 100 * p.n >= 15 * p.d THEN 5
    ELSE 2

\* C2: for every score p, prevented_hospitalizations is p times the prevention
\* rate of p's tier (0.02, 0.05, 0.15, 0.25, 0.35) and cost_savings is that
\* times 10000, at the tier boundaries as everywhere else.
C2_SavingsAreScoreTimesRate ==
    \A c \in Calls :
        (Scored(c) /\ Has(predictions[c], Key30)) =>
            LET p == Get(predictions[c], Key30, None)
                prevented == Result(c, "prevented_hospitalizations")
                savings == Result(c, "cost_savings")
            IN  /\ IsNum(prevented) /\ IsNum(savings)
                /\ Eq(prevented, Float(p.n * RatePercent(p), p.d * 100))
                /\ Eq(savings, Float(p.n * RatePercent(p) * 100, p.d))

\* a call returned cost_savings 2975 = 0.85 * 0.35 * 10000 for the score 0.85
C2_Witness ==
    \E c \in Calls :
        /\ pc[c] = "returned"
        /\ Get(predictions[c], Key30, None) = Float(85, 100)
        /\ Eq(Result(c, "cost_savings"), IntV(2975))

\* predict returned scores, none of them under 30d_hospitalization_score
NoPrimaryScore(c) == predictions[c] # <<>> /\ ~Has(predictions[c], Key30)

\* C3: when the predictions hold no 30d_hospitalization_score, the score
\* counts as 0: nothing but the database can make the call raise, and the
\* result is tier 1 with the tier-1 row and zero prevented hospitalizations
\* and savings.
C3_MissingScoreIsTierOne ==
    \A c \in Calls :
        NoPrimaryScore(c) =>
            /\ err[c] \in {"none", "DatabaseError"}
            /\ pc[c] # "tier" =>
                  /\ HasRow(c, 1, "Low Risk", "Preventive Care", 200)
                  /\ Result(c, "hospitalization_30d_score") = None
                  /\ Eq(Result(c, "risk_30d_hospitalization"), IntV(0))
                  /\ Eq(Result(c, "prevented_hospitalizations"), IntV(0))
                  /\ Eq(Result(c, "cost_savings"), IntV(0))

\* a call without a 30-day score returned tier 1
C3_Witness ==
    \E c \in Calls :
        /\ pc[c] = "returned"
        /\ NoPrimaryScore(c)
        /\ Result(c, "risk_tier") = IntV(1)

\* the call has built its enriched record (lines 153-174)
Enriched(c) == processed_data[c] # <<>>
Derived(c, name) == Get(processed_data[c], lc(name), None)
\* the value the intake record gives under the key spelled name
Raw(c, name) == Get(form_data[c], lc(name), IntV(0))

\* C4: with a the age of the intake record (0 when it has none), the enriched
\* record has age_65_74 = 1 iff 65 <= a < 75, age_75_84 = 1 iff 75 <= a < 85
\* and age_85_plus = 1 iff a >= 85, the other flags being 0: at most one flag
\* is 1 and none is below 65.
C4_AgeBands ==
    \A c \in Calls :
        Enriched(c) =>
            LET a == Raw(c, "age")
            IN  /\ Derived(c, "age_65_74") =
                       Flag(65 * a.d <= a.n /\ a.n < 75 * a.d)
                /\ Derived(c, "age_75_84") =
                       Flag(75 * a.d <= a.n /\ a.n < 85 * a.d)
                /\ Derived(c, "age_85_plus") = Flag(a.n >= 85 * a.d)
                /\ Cardinality({b \in {"age_65_74", "age_75_84", "age_85_plus"} :
                                   Derived(c, b) = IntV(1)}) <= 1
                /\ a.n < 65 * a.d =>
                       \A b \in {"age_65_74", "age_75_84", "age_85_plus"} :
                           Derived(c, b) = IntV(0)

\* an intake record with age 75 got age_75_84 alone
C4_Witness ==
    \E c \in Calls :
        /\ Enriched(c)
        /\ Has(form_data[c], lc("age")) /\ Raw(c, "age") = DigitStr(75)
        /\ Derived(c, "age_65_74") = IntV(0)
        /\ Derived(c, "age_75_84") = IntV(1)
        /\ Derived(c, "age_85_plus") = IntV(0)

ConditionCodes == {condition_fields_upper[i] : i \in DOMAIN condition_fields_upper}

\* C5: every intake key that starts with SP_ in any letter case is dropped from
\* passthrough, and each of the 11 condition flags is 1 exactly when the intake
\* record has a key for that code, in whatever case and with whatever value.
C5_FlagIffKeyPresentInAnyCase ==
    \A c \in Calls :
        Enriched(c) =>
            /\ \A k \in Keys(processed_data[c]) : StartsWithSP(k) => k \in ConditionCodes
            /\ \A code \in ConditionCodes :
                  Get(processed_data[c], code, None) =
                      Flag(\E k \in Keys(form_data[c]) : Upper(k) = code)

HighImpactCodes == {SPu("chf"), SPu("chrnkidn"), SPu("cncr"), SPu("copd")}

\* C6: high_impact_conditions is the number of the four high-impact codes whose
\* flag is 1, whatever the raw values; prior_hospitalization = 1 iff
\* inpatient_admissions > 0, frequent_ed_user = 1 iff outpatient_visits > 10,
\* high_cost_patient = 1 iff total_medicare_costs > 20000, a missing field
\* counting as 0.
C6_CountsAndThresholds ==
    \A c \in Calls :
        (Enriched(c) /\ pc[c] # "raised") =>
            LET adm    == Raw(c, "inpatient_admissions")
                visits == Raw(c, "outpatient_visits")
                costs  == Raw(c, "total_medicare_costs")
                count  == Cardinality({code \in HighImpactCodes :
                              Get(processed_data[c], code, None) = IntV(1)})
            IN  /\ Derived(c, "high_impact_conditions") = IntV(count)
                /\ count = Cardinality(HighImpactCodes \cap Keys(form_data[c]))
                /\ Derived(c, "prior_hospitalization") = Flag(adm.n > 0)
                /\ Derived(c, "frequent_ed_user") = Flag(visits.n > 10 * visits.d)
                /\ Derived(c, "high_cost_patient") = Flag(costs.n > 20000 * costs.d)

\* an intake record with exactly 10 visits is no frequent user, and one with
\* all four high-impact keys set to "on" counts 4
C6_Witness ==
    \E c \in Calls :
        /\ Enriched(c) /\ pc[c] = "returned"
        /\ \/ /\ Has(form_data[c], lc("outpatient_visits"))
              /\ Raw(c, "outpatient_visits") = DigitStr(10)
              /\ Derived(c, "frequent_ed_user") = IntV(0)
           \/ Derived(c, "high_impact_conditions") = IntV(4)

\* the vector is the one the claim describes for the record predict was given
CaseInsensitiveVector(X, input_data) ==
    /\ Len(X) = Len(feature_columns)
    /\ \A i \in DOMAIN feature_columns :
          LET same == {j \in DOMAIN input_data :
                          Lower(input_data[j][1]) = Lower(feature_columns[i])}
          IN  IF same = {} THEN X[i] = IntV(0)
              ELSE \E j \in same : X[i] = input_data[j][2]

\* predictor.predict was called on its own and the bundle was loaded
DirectDone == direct.status = "done" /\ direct.err # "Models not loaded"

\* C7: for every input record and every feature-name list, the vector predict
\* builds has a value for every required name: the input's value when the input
\* has a key equal to the name ignoring letter case, and 0 when it has none;
\* fields the model does not require are ignored.
C7_VectorMatchesIgnoringCase ==
    /\ DirectDone => CaseInsensitiveVector(direct.X_input, record)
    /\ \A c \in Calls :
          X_input[c] # <<>> => CaseInsensitiveVector(X_input[c], processed_data[c])

\* the record holds every name of feature_columns spelled as in feature_columns
Canonical(input_data) ==
    \A i \in DOMAIN feature_columns : Has(input_data, feature_columns[i])

\* C8: when the record given to predict holds every name of feature_columns
\* spelled exactly as in feature_columns, the vector handed to the transform is
\* [record[f] for f in feature_columns], whatever the spelling of the names.
C8_CanonicalRecordIsExtracted ==
    (DirectDone /\ Canonical(record)) =>
        direct.X_input =
            [i \in DOMAIN feature_columns |-> Get(record, feature_columns[i], None)]

PastPredict == {"tier", "returned"} \cup StorePcs

\* C9: while the pipeline or the models are not set, every operation that
\* scores through the bundle fails with the not-loaded error and returns no
\* result: predict called on its own, predict called for an upload, and
\* get_condition_impact called for an analysis.
C9_NotLoadedNeverReturns ==
    (proc = "serving" /\ NotLoaded(pipeline, models)) =>
        /\ direct.status = "done" => direct.err = "Models not loaded"
        /\ \A c \in Calls :
              /\ pc[c] \notin PastPredict
              /\ pc[c] = "raised" => err[c] = "Models not loaded"
        /\ analysis.status # "computed"

ScoreNames ==
    { <<"30d_hospitalization", "hospitalization_30d_score">>,
      <<"60d_hospitalization", "hospitalization_60d_score">>,
      <<"90d_hospitalization", "hospitalization_90d_score">>,
      <<"mortality", "mortality_score">> }

\* C10: the score set of a call is keyed by exactly hospitalization_30d_score,
\* hospitalization_60d_score, hospitalization_90d_score and mortality_score,
\* and each holds the probability given by the classifier stored under
\* 30d_hospitalization, 60d_hospitalization, 90d_hospitalization and mortality
\* respectively.
C10_ScoresUnderTheirTargets ==
    \A c \in Calls :
        Scored(c) =>
            /\ Keys(DbPredictions(predictions[c])) = {lc(nm[2]) : nm \in ScoreNames}
            /\ \A nm \in ScoreNames :
                  Has(models.d, lc(nm[1])) =>
                      Result(c, nm[2]) =
                          PredictProba(Get(models.d, lc(nm[1]), None),
                                       Transform(pipeline.obj, X_input[c]).X)

\* a call returned four different scores, each the one of its own classifier
C10_Witness ==
    \E c \in Calls :
        /\ pc[c] = "returned"
        /\ \A nm \in ScoreNames : Has(models.d, lc(nm[1]))
        /\ Cardinality({Result(c, nm[2]) : nm \in ScoreNames}) = 4
        /\ Result(c, "hospitalization_60d_score") # Result(c, "hospitalization_90d_score")

\* get_condition_impact was called for the stored patient analysis.patient_data
Attributed == analysis.status \in {"computed", "swallowed"} /\ analysis.patient_data # <<>>

\* the conditions whose flag is 1 in the patient's record, in the order of the 11 codes
Present ==
    SelectSeq(condition_fields,
              LAMBDA cond : LET v == Get(analysis.patient_data, cond, None)
                            IN  v.t \in {"int", "float"} /\ v.n = v.d)
PresentNames == {CleanName(Present[i]) : i \in DOMAIN Present}

MortalityClassifier == Get(models.d, lc("mortality"), Stump(0, 0, 0))

\* the weight the mortality classifier gives a condition: the one at the place
\* of the condition's name in feature_columns, 0 when it has none
ImportanceOf(cond) ==
    LET w == Importances(MortalityClassifier).w
        at == {i \in DOMAIN feature_columns : i <= Len(w) /\ feature_columns[i] = cond}
    IN  IF at = {} THEN 0 ELSE w[CHOOSE i \in at : \A j \in at : j <= i]

RECURSIVE SumImportance(_)
SumImportance(conds) ==
    IF conds = <<>> THEN 0 ELSE ImportanceOf(Head(conds)) + SumImportance(Tail(conds))

\* importances are available and those of the present conditions sum to more than 0
Assignable ==
    /\ Has(models.d, lc("mortality"))
    /\ Importances(MortalityClassifier).has
    /\ feature_columns # <<>>
    /\ SumImportance(Present) > 0

RECURSIVE SumHundredths(_)
\* the sum of the values of an impact map, in hundredths
SumHundredths(impacts) ==
    IF impacts = <<>> THEN 0
    ELSE (Head(impacts)[2].n * 100) \div Head(impacts)[2].d + SumHundredths(Tail(impacts))

\* C11: when importances are available and those of the patient's present
\* conditions sum to a total > 0, each present condition gets
\* round(100 * importance / total, 2) under its display name, a condition whose
\* rounded value is 0 is left out, and the values sum to 100 within the
\* rounding of each entry.
C11_WeightedShares ==
    (analysis.status = "computed" /\ ~NotLoaded(pipeline, models) /\ Assignable) =>
        /\ Keys(analysis.ret) \subseteq PresentNames
        /\ \A i \in DOMAIN Present :
              LET v == Round2(100 * ImportanceOf(Present[i]), SumImportance(Present))
              IN  IF v = 0 THEN ~Has(analysis.ret, CleanName(Present[i]))
                  ELSE Get(analysis.ret, CleanName(Present[i]), None) = Float(v, 100)
        /\ SumHundredths(analysis.ret) \in (10000 - Len(Present))..(10000 + Len(Present))

\* C12: when the patient has n >= 1 present conditions, the bundle has a
\* mortality classifier and no condition is assignable from weights, the map
\* get_condition_impact returns has exactly the n present conditions, each
\* valued round(100 / n, 2).
C12_UniformFallback ==
    (/\ analysis.status = "computed"
     /\ ~NotLoaded(pipeline, models)
     /\ Has(models.d, lc("mortality"))
     /\ Present # <<>>
     /\ ~Assignable) =>
        /\ Keys(analysis.ret) = PresentNames
        /\ Len(analysis.ret) = Len(Present)
        /\ \A i \in DOMAIN analysis.ret :
              analysis.ret[i][2] = Float(Round2(100, Len(Present)), 100)

\* three conditions without usable weights got 33.33 each
C12_Witness ==
    /\ analysis.status = "computed"
    /\ Len(Present) = 3
    /\ ~Assignable
    /\ Len(analysis.ret) = 3
    /\ \A i \in DOMAIN analysis.ret : analysis.ret[i][2] = Float(3333, 100)

\* C13: for every patient with at least one condition flag set to 1 and every
\* loaded bundle, get_condition_impact returns a non-empty map whose values sum
\* to 100.
C13_NonEmptySumTo100 ==
    (Attributed /\ ~NotLoaded(pipeline, models) /\ Present # <<>>) =>
        /\ analysis.status = "computed"
        /\ analysis.ret # <<>>
        /\ SumHundredths(analysis.ret) = 10000

ScoreAndTierNames ==
    {"hospitalization_30d_score", "hospitalization_60d_score",
     "hospitalization_90d_score", "mortality_score", "risk_tier"}

\* C15: when process_uploaded_data is called twice in a row on the same intake
\* record under the same bundle, whatever the database held before the first
\* call, both calls return the same four scores and the same risk_tier.
C15_SameScoresTwice ==
    \A c \in Calls :
        Len(results[c]) >= 2 =>
            \A name \in ScoreAndTierNames :
                Get(results[c][1], lc(name), None) = Get(results[c][2], lc(name), None)

\* a caller got two results for an identified patient, the second after the
\* first had stored its row, with a 30-day score
C15_Witness ==
    \E c \in Calls :
        /\ Len(results[c]) = 2
        /\ patient_analysis # <<>>
        /\ IsNum(Get(results[c][2], lc("hospitalization_30d_score"), None))
        /\ Get(results[c][2], lc("risk_tier"), None) \in {IntV(t) : t \in 1..5}

InCall == {"derive", "predict", "tier"} \cup StorePcs

\* C16: no step of a scoring call changes the patients or patient_analysis
\* table: the tables stay as they are from the start of the call to its return
\* (persistence comes after the return), and a call that fails leaves them
\* unchanged.
C16_CallStepsLeaveTables ==
    [][\A c \in Calls : (pc[c] \in InCall /\ pc'[c] # pc[c]) => UNCHANGED dbVars]_vars

ScoringErrors == {"Models not loaded", "ValueError"}

\* C17: an error raised while scoring or attributing reaches the caller of the
\* entry point: no upload goes past a prediction that raised, an upload that
\* raised carries the error, and get_conditional_risk_analysis never answers
\* with a map when the attribution raised.
C17_ScoringErrorsPropagate ==
    /\ \A c \in Calls :
          /\ pc[c] \in PastPredict =>
                Predict(pipeline, models, feature_columns,
                        LowerKeys(processed_data[c])).err = "none"
          /\ pc[c] = "raised" => err[c] # "none"
    /\ ~(analysis.status = "swallowed" /\ analysis.err \in ScoringErrors)

\* an artifact could not be opened or unpickled, or holds no models object
LoadFailed ==
    \/ ~disk.pipeline.readable
    \/ ~disk.risk_models.readable
    \/ ~disk.risk_models.models.set

\* no request has been served and none is under way
NothingServed ==
    /\ \A c \in Calls : pc[c] \in {"idle", "off"} /\ results[c] = <<>>
                        /\ predictions[c] = <<>>
    /\ analysis.status \in {"off", "never"}
    /\ direct.status \in {"off", "ready"}

\* C18: the bundle is loaded once, while the process starts and before any
\* request is served; when loading an artifact fails the process never serves,
\* so no prediction is ever returned, also when the transform was loaded and
\* the classifiers were not.
C18_LoadOnceFailFast ==
    /\ [](proc # "serving" => NothingServed)
    /\ [](LoadFailed => proc # "serving")
    /\ [][(predictorVars' # predictorVars \/ proc' # proc) =>
              (proc = "starting" /\ NothingServed)]_vars

\* the process ended at import with the transform loaded and the classifiers not
C18_Witness ==
    /\ proc = "crashed"
    /\ pipeline.set /\ ~models.set
    /\ NothingServed

\* what the upload of caller c gives when nothing else runs: a function of its
\* own record and of the bundle
AlonePredictions(c) ==
    Predict(pipeline, models, feature_columns,
            LowerKeys(DeriveFeatures(form_data[c]).data)).predictions
AloneResults(c) ==
    FinalResults(DeriveFeatures(form_data[c]).data, AlonePredictions(c)).data

\* C19: once the bundle is loaded no step writes pipeline, models or
\* feature_columns, nor the record a caller sent; and in every interleaving of
\* uploads, analyses and direct predictions each call has the predictions and
\* returns the result it would have had alone.
C19_ReadOnlyAndIsolated ==
    /\ [][proc = "serving" =>
              UNCHANGED << pipeline, models, feature_columns, form_data, record >>]_vars
    /\ [][\A c \in Calls :
             /\ (predictions'[c] # predictions[c] /\ predictions'[c] # <<>>) =>
                    predictions'[c] = AlonePredictions(c)
             /\ (final_results'[c] # final_results[c] /\ final_results'[c] # <<>>) =>
                    final_results'[c] = AloneResults(c)
             /\ results'[c] # results[c] =>
                    results'[c] = Append(results[c], AloneResults(c))]_vars
    /\ [](analysis.status = "computed" =>
             analysis.ret = GetConditionImpact(pipeline, models, feature_columns,
                                               analysis.patient_data).impacts)
    /\ [](direct.status = "done" =>
             direct.predictions =
                 Predict(pipeline, models, feature_columns, record).predictions)

\* two uploads with different records are both between their prediction and
\* their return, with different scores
C19_Witness ==
    /\ pc["c1"] \in StorePcs /\ pc["c2"] \in StorePcs
    /\ form_data["c1"] # form_data["c2"]
    /\ predictions["c1"] # <<>> /\ predictions["c2"] # <<>>
    /\ predictions["c1"] # predictions["c2"]

\* C20: the derived-feature step never raises: every call that has left it has
\* an enriched record, also when the intake record omits age,
\* inpatient_admissions, outpatient_visits or total_medicare_costs or gives
\* them a non-numeric string, a missing field counting as 0.
C20_DeriveNeverRaises ==
    \A c \in Calls :
        pc[c] \notin {"idle", "off", "derive"} =>
            /\ Enriched(c)
            /\ \A name \in {"age", "inpatient_admissions", "outpatient_visits",
                            "total_medicare_costs"} :
                  ~Has(processed_data[c], lc(name)) =>
                      \A flag \in {"age_65_74", "age_75_84", "age_85_plus",
                                   "prior_hospitalization", "frequent_ed_user",
                                   "high_cost_patient"} :
                          Derived(c, flag) \in {IntV(0), IntV(1)}

\* the sources of weights a classifier exposes: "a" its importance scores, "b"
\* its linear coefficients, "c" those of its wrapped base estimator
Exposed(m) ==
    {k \in {"a", "b", "c"} :
        \/ k = "a" /\ m.fi.has
        \/ k = "b" /\ m.coef.has
        \/ k = "c" /\ m.base.has /\ (m.base.fi.has \/ m.base.coef.has)}

AbsAll(w) == [i \in DOMAIN w |-> IF w[i] < 0 THEN 0 - w[i] ELSE w[i]]

SourceWeights(m, k) ==
    CASE k = "a" -> m.fi.w
      [] k = "b" -> AbsAll(m.coef.w)
      [] k = "c" -> IF m.base.fi.has THEN m.base.fi.w ELSE AbsAll(m.base.coef.w)

\* the map the present conditions get from the weights w: their shares, or the
\* uniform split when the weights give no condition a share
MapFrom(w) ==
    LET importance_dict == ImportanceDict(feature_columns, w)
        total == TotalImportance(importance_dict, Present)
        shares == IF feature_columns # <<>> /\ total > 0
                  THEN WeightedImpacts(importance_dict, total, Present)
                  ELSE <<>>
    IN  IF shares = <<>> THEN UniformImpacts(Present) ELSE shares

\* C21: get_condition_impact takes the mortality classifier's weights from the
\* first source it exposes, in the order (a) its own importance scores, (b) the
\* absolute values of its own coefficients, (c) the importances, or else the
\* absolute coefficients, of its base estimator; a later source is not used
\* when an earlier one is exposed, and when none is exposed the conditions get
\* the uniform split and the call does not fail.
C21_FirstExposedSourceWins ==
    (/\ Attributed
     /\ ~NotLoaded(pipeline, models)
     /\ Has(models.d, lc("mortality"))
     /\ Present # <<>>
     /\ Predict(pipeline, models, feature_columns, analysis.patient_data).err = "none") =>
        LET m == MortalityClassifier
            first == IF "a" \in Exposed(m) THEN "a" ELSE IF "b" \in Exposed(m) THEN "b" ELSE "c"
        IN  /\ analysis.status = "computed"
            /\ analysis.ret = IF Exposed(m) = {} THEN UniformImpacts(Present)
                              ELSE MapFrom(SourceWeights(m, first))

\* a classifier exposing importance scores and coefficients that give
\* different shares: the analysis has the shares of the importance scores
C21_Witness ==
    /\ analysis.status = "computed"
    /\ Present # <<>>
    /\ {"a", "b"} \subseteq Exposed(MortalityClassifier)
    /\ MapFrom(SourceWeights(MortalityClassifier, "a"))
           # MapFrom(SourceWeights(MortalityClassifier, "b"))
    /\ analysis.ret = MapFrom(SourceWeights(MortalityClassifier, "a"))

\* the rows a table holds for a patient id
RowsOf(table, id) == SelectSeq(table, LAMBDA r : r.desynpuf_id = id)

\* no two rows of the table carry the same patient id
OneRowPerId(table) ==
    \A i, j \in DOMAIN table :
        (table[i].desynpuf_id # None /\ table[i].desynpuf_id = table[j].desynpuf_id) => i = j

\* the patient id the call of c carries, as the tables store it
CallId(c) == DbText(Get(LowerKeys(final_results[c]), lc("desynpuf_id"), None))

\* C22: storing is an upsert keyed by patient id: after any sequence of
\* uploads, and in every interleaving of concurrent uploads carrying the same
\* desynpuf_id, patient_analysis and patients each hold at most one row per
\* desynpuf_id; when a call commits, the row of its patient carries that call's
\* values; and a call whose store step fails leaves both tables as they were.
C22_UpsertByPatientId ==
    /\ [](OneRowPerId(patient_analysis) /\ OneRowPerId(patients))
    /\ [][\A c \in Calls :
             (pc[c] = "commit" /\ pc'[c] = "returned" /\ CallId(c) # None) =>
                 /\ RowsOf(patient_analysis', CallId(c)) # <<>>
                 /\ \A i \in DOMAIN RowsOf(patient_analysis', CallId(c)) :
                        RowsOf(patient_analysis', CallId(c))[i].cols
                            = ColumnValues(LowerKeys(final_results[c]))]_vars
    /\ [][\A c \in Calls :
             (pc[c] \in StorePcs /\ pc'[c] = "raised") => UNCHANGED dbVars]_vars

====
